---------------------------- MODULE Spec2Model ----------------------------
(***************************************************************************)
(* ChronoSage: the free/busy slot finder of the smart scheduler            *)
(* (CalendarManager._find_free_slots) and the multi-day aggregation around *)
(* it (CalendarManager.suggest_optimal_meeting_time).                      *)
(*                                                                         *)
(* Time.  An instant is an integer number of minutes since Monday 00:00 of *)
(* the week the model starts in, in the manager's timezone.  The code      *)
(* works on timezone-aware datetimes; comparison, max, min and subtraction *)
(* of aware datetimes act on the instant, and timedelta addition on a      *)
(* pytz-localized datetime keeps its UTC offset, so integer arithmetic on  *)
(* minutes is what the code computes.  A busy period is the Python tuple   *)
(* (start, end), here <<start, end>>.  A suggestion is the dict            *)
(* {"start", "end", "confidence"}; isoformat() of an instant is modelled   *)
(* by the instant it denotes.                                              *)
(***************************************************************************)
EXTENDS Integers, Sequences, FiniteSets, TLC

VARIABLES
    pc,               \* position: which call is running and where it stands
    busy_periods,     \* list of (start, end) tuples handed to the finder
    day_start,        \* window start of the finder call
    day_end,          \* window end of the finder call
    duration_minutes, \* requested meeting length
    free_slots,       \* list returned by the last _find_free_slots call
    attendees,        \* suggest_optimal_meeting_time: list of addresses
    start_date,       \* first instant of the range (after the defaults)
    end_date,         \* last instant of the range (after the defaults)
    working_hours,    \* (start hour, end hour)
    now,              \* the wall clock, datetime.now(self.timezone)
    ticks,            \* minutes the clock has advanced during the call
    free_busy_info,   \* what get_free_busy_times returned
    current_date,     \* the day loop's cursor
    suggestions,      \* slots gathered so far
    result,           \* the list suggest_optimal_meeting_time returned
    visited,          \* history: one entry per pass of the day loop
    event,            \* the stored event process_edit_command matched
    edit_details,     \* the edit request as event_processor returned it
    updates,          \* the fields process_edit_command sends to update_event
    updated_event,    \* the stored event after update_event
    message,          \* what process_edit_command returned
    command,          \* process_create_command or process_edit_command
    openai_client,    \* whether the language-model client was initialized
    llm_outcomes,     \* what the language-model calls to come will do
    attempt_number,   \* calls of the decorated function the retry loop has made
    attempt,          \* outcome of the last call of the decorated function
    event_details,    \* what the decorated function returned to its caller
    calendars_cache,  \* self._calendars_cache
    calendars_cache_expiry,\* self._calendars_cache_expiry
    clock,            \* time.time(), in seconds
    fetched,          \* history: the last successful fetch from the API
    last_call,        \* history: the last get_available_calendars call
    stored_attendees, \* emails of the event's attendees as the calendar holds them
    attendees_before, \* history: the event's attendees before the call
    requested,        \* the attendees argument of add_attendees_to_event
    events,           \* analyze_free_time: the list of events
    range_start,      \* analyze_free_time: start_date
    range_end,        \* analyze_free_time: end_date
    min_duration,     \* analyze_free_time: min_duration, in minutes
    time_now,         \* datetime.now(self.timezone) as analyze_free_time reads it
    free_periods      \* the list analyze_free_time returned

finder_vars == <<busy_periods, day_start, day_end, duration_minutes,
                 free_slots>>

suggest_vars == <<attendees, start_date, end_date, working_hours, now, ticks,
                  free_busy_info, current_date, suggestions, result, visited>>

edit_vars == <<event, edit_details, updates, updated_event, message>>

retry_vars == <<command, openai_client, llm_outcomes, attempt_number, attempt,
               event_details>>

cache_vars == <<calendars_cache, calendars_cache_expiry, clock, fetched,
               last_call>>

attendee_vars == <<stored_attendees, attendees_before, requested>>

analyze_vars == <<events, range_start, range_end, min_duration, time_now,
                 free_periods>>

\* the variables of the calendar calls, and for each group of variables
\* all the variables outside it
calendar_vars == <<finder_vars, suggest_vars>>

outside_calendar ==
    <<edit_vars, retry_vars, cache_vars, attendee_vars, analyze_vars>>

outside_edit ==
    <<calendar_vars, retry_vars, cache_vars, attendee_vars, analyze_vars>>

outside_retry ==
    <<calendar_vars, edit_vars, cache_vars, attendee_vars, analyze_vars>>

outside_cache ==
    <<calendar_vars, edit_vars, retry_vars, attendee_vars, analyze_vars>>

outside_attendee ==
    <<calendar_vars, edit_vars, retry_vars, cache_vars, analyze_vars>>

outside_analyze ==
    <<calendar_vars, edit_vars, retry_vars, cache_vars, attendee_vars>>

vars ==
    <<pc, calendar_vars, edit_vars, retry_vars, cache_vars, attendee_vars,
        analyze_vars>>

---------------------------------------------------------------------------
(* Bounds *)

MaxTime == 4    \* instants of the exhaustive finder inputs: 0..MaxTime
MaxBusy == 2    \* longest busy list of a direct finder call
MaxDur == 2     \* longest duration of the exhaustive finder inputs
MaxDays == 5    \* longest date range: end date = start date + MaxDays
MaxTicks == 1   \* minutes the clock may advance while a call runs
MaxEditDay == 1 \* last day an edited event or a new date can fall on
MaxCalls == 3   \* language-model calls whose outcome is drawn
MaxClockSteps == 4  \* steps the clock of the calendar cache can take
MaxRequested == 2   \* longest list of attendees to add
MaxAnalyzeTime == 4 \* instants of analyze_free_time: 0..MaxAnalyzeTime
MaxEvents == 2      \* longest list of events analysed

---------------------------------------------------------------------------
(* Python built-ins used by the code *)

\* the elements of a list
Range(s) == {s[i] : i \in 1..Len(s)}

Max(a, b) == IF a >= b THEN a ELSE b
Min(a, b) == IF a <= b THEN a ELSE b

\* variant: tuples are compared on their end alone
TupleLessByEnd(a, b) == a[2] < b[2]

\* tuple comparison of two (start, end) tuples: lexicographic
TupleLess(a, b) == a[1] < b[1] \/ (a[1] = b[1] /\ a[2] < b[2])

RECURSIVE InsertSorted(_, _)
InsertSorted(x, s) ==
    IF s = <<>> THEN <<x>>
    ELSE IF TupleLess(x, Head(s)) THEN <<x>> \o s
    ELSE <<Head(s)>> \o InsertSorted(x, Tail(s))

RECURSIVE SortedList(_)
SortedList(s) ==
    IF s = <<>> THEN <<>>
    ELSE InsertSorted(s[Len(s)], SortedList(SubSeq(s, 1, Len(s) - 1)))

\* variant: the list is left in the order given
ListSortOmitted(s) == s

\* list.sort() on a list of tuples
ListSort(s) == SortedList(s)

---------------------------------------------------------------------------
(* _find_free_slots *)

Confidence == 90   \* the literal 0.9, in hundredths

\* the dict appended for a gap starting at current_time
Suggestion(current_time, duration) ==
    [start |-> current_time, end |-> current_time + duration,
     confidence |-> Confidence]

\* variant: no busy period is left out
OverlapsDayAlways(p, dstart, dend) == TRUE

\* variant: only busy periods lying wholly inside the day are kept
OverlapsDayWithin(p, dstart, dend) == p[1] >= dstart /\ p[2] <= dend

\* the comprehension's condition: the busy period overlaps the day
OverlapsDay(p, dstart, dend) == p[1] < dend /\ p[2] > dstart

\* the comprehension's element: the busy period clipped to the day
ClipToDay(p, dstart, dend) == <<Max(p[1], dstart), Min(p[2], dend)>>

RelevantBusy(busy, dstart, dend) ==
    LET keep(p) == OverlapsDay(p, dstart, dend)
        kept == SelectSeq(busy, keep)
    IN  [i \in 1..Len(kept) |-> ClipToDay(kept[i], dstart, dend)]

\* variant: the gap must be longer than the duration
GapFitsStrict(current_time, gap_end, duration) ==
    /\ current_time < gap_end
    /\ (gap_end - current_time) > duration

\* the test guarding the append: a gap of at least the duration
GapFits(current_time, gap_end, duration) ==
    /\ current_time < gap_end
    /\ (gap_end - current_time) >= duration

\* variant: the cursor jumps to the end of the busy period just read
AdvanceToEnd(current_time, end_busy) == end_busy

\* current_time = max(current_time, end_busy)
Advance(current_time, end_busy) == Max(current_time, end_busy)

\* variant: the new slot is put in front
EmitFront(slots, s) == <<s>> \o slots

\* free_slots.append(...)
Emit(slots, s) == Append(slots, s)

\* variant: the slot offered is the whole gap
WalkStepWholeGap(st, busy, duration) ==
    [current_time |-> Advance(st.current_time, busy[2]),
     free_slots |->
        IF GapFits(st.current_time, busy[1], duration)
        THEN Emit(st.free_slots,
                  [start |-> st.current_time, end |-> busy[1],
                   confidence |-> Confidence])
        ELSE st.free_slots]

\* one iteration of "for start_busy, end_busy in relevant_busy"
WalkStep(st, busy, duration) ==
    [current_time |-> Advance(st.current_time, busy[2]),
     free_slots |->
        IF GapFits(st.current_time, busy[1], duration)
        THEN Emit(st.free_slots, Suggestion(st.current_time, duration))
        ELSE st.free_slots]

RECURSIVE Walk(_, _, _)
Walk(st, relevant_busy, duration) ==
    IF relevant_busy = <<>> THEN st
    ELSE Walk(WalkStep(st, Head(relevant_busy), duration),
              Tail(relevant_busy), duration)

\* variant: the gap after the last busy period is forgotten
FinalSlotOmitted(st, dend, duration) == st.free_slots

\* variant: the list passed in is filtered, clipped and sorted in place
BusyPeriodsInPlace(busy, dstart, dend) ==
    ListSort(RelevantBusy(busy, dstart, dend))

\* the busy_periods argument after the call: the comprehension builds the
\* new list relevant_busy, which is what gets sorted; the argument is only
\* iterated over
BusyPeriodsAfterCall(busy, dstart, dend) == busy

\* "Add final free slot if needed"
FinalSlot(st, dend, duration) ==
    IF GapFits(st.current_time, dend, duration)
    THEN Emit(st.free_slots, Suggestion(st.current_time, duration))
    ELSE st.free_slots

_find_free_slots(busy, dstart, dend, duration) ==
    LET relevant_busy == ListSort(RelevantBusy(busy, dstart, dend))
        st0 == [current_time |-> dstart, free_slots |-> <<>>]
    IN  FinalSlot(Walk(st0, relevant_busy, duration), dend, duration)

---------------------------------------------------------------------------
(* datetime arithmetic on minutes since Monday 00:00 *)

MinutesPerDay == 24 * 60

\* the instant of day d (0 = Monday) at h:m
At(d, h, m) == d * MinutesPerDay + h * 60 + m

\* datetime.date(), as the number of the day
DateOf(t) == t \div MinutesPerDay

\* datetime.hour
HourOf(t) == (t % MinutesPerDay) \div 60

\* datetime.weekday(): Monday = 0 ... Sunday = 6
Weekday(t) == DateOf(t) % 7

\* t.replace(hour=h, minute=0, second=0, microsecond=0)
ReplaceHour(t, h) == At(DateOf(t), h, 0)

\* t.replace(minute=0, second=0, microsecond=0)
TruncateToHour(t) == t - (t % 60)

---------------------------------------------------------------------------
(* get_free_busy_times *)

\* '@' in attendee
HasAt(a) == a \in {"ann@x.org", "bob@x.org"}

\* valid_attendees, in the order of the argument
ValidAttendees(att) == SelectSeq(att, HasAt)

---------------------------------------------------------------------------
(* suggest_optimal_meeting_time *)

MaxSuggestions == 5

\* variant: only the first attendee's busy list is taken
FlattenBusyFirst(order, busy_of) ==
    IF order = <<>> THEN <<>> ELSE busy_of[Head(order)]

\* the nested loops filling busy_periods from the response, attendee by
\* attendee
RECURSIVE FlattenBusy(_, _)
FlattenBusy(order, busy_of) ==
    IF order = <<>> THEN <<>>
    ELSE busy_of[Head(order)] \o FlattenBusy(Tail(order), busy_of)

\* "current_date.date() == now.date() and now.hour >= working_hours[0]",
\* on the first and second reading of the clock
PastStartToday(cur, wh, n1, n2) ==
    DateOf(cur) = DateOf(n1) /\ HourOf(n2) >= wh[1]

\* variant: day_start becomes the current time itself
DayStartOfCurrentTime(cur, wh, n1, n2, n3) ==
    IF PastStartToday(cur, wh, n1, n2)
    THEN Max(ReplaceHour(cur, wh[1]), n3)
    ELSE ReplaceHour(cur, wh[1])

\* day_start of the pass, n1, n2, n3 being the three readings of the clock
DayStartOf(cur, wh, n1, n2, n3) ==
    IF PastStartToday(cur, wh, n1, n2)
    THEN Max(ReplaceHour(cur, wh[1]), TruncateToHour(n3) + 60)
    ELSE ReplaceHour(cur, wh[1])

\* day_end of the pass
DayEndOf(cur, wh) == ReplaceHour(cur, wh[2])

\* variant: only Sunday counts as weekend
IsWeekendSundayOnly(cur) == Weekday(cur) > 5

\* current_date.weekday() >= 5
IsWeekend(cur) == Weekday(cur) >= 5

\* variant: the cursor is left on the same day
NextDayStays(cur) == cur

\* current_date + timedelta(days=1)
NextDay(cur) == cur + MinutesPerDay

\* variant: the day's slots are put in front of the earlier days' slots
ExtendFront(sugg, slots) == slots \o sugg

\* suggestions.extend(free_slots)
Extend(sugg, slots) == sugg \o slots

\* variant: the last slots are kept
TopSuggestionsLast(sugg) ==
    SubSeq(sugg, Max(1, Len(sugg) - MaxSuggestions + 1), Len(sugg))

\* suggestions[:5]
TopSuggestions(sugg) == SubSeq(sugg, 1, Min(MaxSuggestions, Len(sugg)))

\* the readings of the clock during one pass: the clock never runs
\* backwards and advances by at most the minutes left
ClockReadings ==
    {r \in (now..(now + MaxTicks - ticks)) \X (now..(now + MaxTicks - ticks))
           \X (now..(now + MaxTicks - ticks)) :
        r[1] <= r[2] /\ r[2] <= r[3]}

---------------------------------------------------------------------------
(* process_edit_command: the 'reschedule' branch *)

\* "key in edit_details"
Has(details, key) == key \in DOMAIN details

MinuteOf(t) == t % 60

\* start_dt.replace(year=..., month=..., day=...): the time of day is kept
ReplaceDate(t, d) == At(d, HourOf(t), MinuteOf(t))

\* start_dt.replace(hour=..., minute=...): the date is kept
ReplaceTime(t, h, m) == At(DateOf(t), h, m)

\* int(x / y) for whole x: the quotient cut towards zero
IntQuotient(x, y) == IF x >= 0 THEN x \div y ELSE 0 - ((0 - x) \div y)

\* (end_dt - start_dt).total_seconds()
TotalSeconds(end_dt, start_dt) == (end_dt - start_dt) * 60

\* start_dt after the new date and the new time have been applied
NewStart(ev, details) ==
    LET dated == IF Has(details, "new_date")
                 THEN ReplaceDate(ev.start, details["new_date"])
                 ELSE ev.start
    IN  IF Has(details, "new_time")
        THEN ReplaceTime(dated, details["new_time"][1],
                         details["new_time"][2])
        ELSE dated

\* duration: the new one if given, else end_dt - start_dt in minutes, where
\* end_dt is the event's end and start_dt has been replaced already
EditDuration(ev, details) ==
    IF Has(details, "new_duration") THEN details["new_duration"]
    ELSE IntQuotient(TotalSeconds(ev.end, NewStart(ev, details)), 60)

\* updates['start'] and updates['end']
TimeUpdates(ev, details) ==
    [start |-> NewStart(ev, details),
     end |-> NewStart(ev, details) + EditDuration(ev, details)]

\* update_event: "for key, value in updates.items(): event[key] = value"
ApplyUpdates(ev, upd) ==
    [k \in DOMAIN ev \cup DOMAIN upd |->
        IF k \in DOMAIN upd THEN upd[k] ELSE ev[k]]

---------------------------------------------------------------------------
(* Inputs of a direct finder call *)

Instants == 0..MaxTime

\* busy periods as a free/busy response delivers them: start <= end
BusyTuples == {p \in Instants \X Instants : p[1] <= p[2]}

\* windows starting at the first or second instant and ending at the last
\* instant or the one before, so that busy periods begin and end before, at
\* and after either end of the window, and a window one instant long
Windows ==
    {w \in Instants \X Instants :
        /\ w[1] < w[2]
        /\ w[1] <= 1
        /\ w[2] >= MaxTime - 1 \/ w[2] = 1}

Durations == 1..MaxDur

\* a working day 09:00-17:00 (minutes of the day) and busy periods around it
DayWindow == <<540, 1020>>

DayBusy == {<<600, 630>>, <<780, 900>>, <<480, 570>>, <<615, 800>>,
            <<990, 1080>>, <<360, 1200>>, <<560, 600>>, <<660, 700>>}

DayDurations == {30, 60, 150}

ListsOver(S) == UNION {[1..n -> S] : n \in 0..MaxBusy}

FinderInputs ==
    {[busy |-> b, dstart |-> w[1], dend |-> w[2], duration |-> d] :
        b \in ListsOver(BusyTuples), w \in Windows, d \in Durations}
    \cup
    {[busy |-> b, dstart |-> DayWindow[1], dend |-> DayWindow[2],
      duration |-> d] : b \in ListsOver(DayBusy), d \in DayDurations}

---------------------------------------------------------------------------
(* Inputs of suggest_optimal_meeting_time *)

AttendeeLists ==
    {<<>>, <<"nobody">>, <<"ann@x.org">>, <<"ann@x.org", "bob@x.org">>}

\* Thursday 00:00 and Friday 00:00 (the form passes midnight of the chosen
\* date), Thursday 10:30 (a start date given with a time of day)
StartDates == {At(3, 0, 0), At(4, 0, 0), At(3, 10, 30)}

\* the form passes the last minute of the chosen end date
EndDates(start) == {At(DateOf(start) + k, 23, 59) : k \in 0..MaxDays}

WorkingHours == {<<9, 17>>, <<10, 12>>}

MeetingDurations == {30, 60}

\* Thursday before, within and at the end of working hours; Friday noon
NowChoices == {At(3, 8, 15), At(3, 10, 59), At(3, 16, 59), At(4, 12, 0)}

\* busy lists one attendee's calendar may report
BusyChoices ==
    {<<>>,
     <<<<At(3, 10, 0), At(3, 11, 0)>>, <<At(4, 12, 0), At(4, 13, 0)>>>>,
     <<<<At(3, 10, 30), At(3, 12, 0)>>, <<At(7, 9, 0), At(7, 17, 0)>>>>,
     <<<<At(3, 16, 0), At(4, 10, 0)>>, <<At(7, 11, 0), At(7, 12, 0)>>>>}

NoInfo == [status |-> "none"]

---------------------------------------------------------------------------
(* Inputs of process_edit_command *)

EditDays == 0..MaxEditDay

\* stored events: the end is after the start
EventStarts == {At(d, h, m) : d \in EditDays, h \in {9, 14}, m \in {0, 30}}
EventLengths == {30, 60, 90}
EventAttendees == {<<>>, <<"ann@x.org">>}
Events ==
    {[start |-> t, end |-> t + n, attendees |-> a] :
        t \in EventStarts, n \in EventLengths, a \in EventAttendees}

NewTimes == {<<9, 0>>, <<10, 30>>, <<15, 15>>}
NewDurations == {45}

\* a dict with the key k bound to a value of S, or without the key
Optional(k, S) == {<<>>} \cup {k :> v : v \in S}

EditRequests ==
    {d @@ t @@ n @@ a @@ r :
        d \in Optional("new_date", EditDays),
        t \in Optional("new_time", NewTimes),
        n \in Optional("new_duration", NewDurations),
        a \in Optional("add_attendees", {<<>>, <<"bob@x.org">>}),
        r \in Optional("remove_attendees", {<<"ann@x.org">>})}

\* no event is being edited
NoEvent == [start |-> 0, end |-> 0, attendees |-> <<>>]

---------------------------------------------------------------------------
(* process_create_command and process_edit_command of the event processor, *)
(* under @retry(stop=stop_after_attempt(3), wait=wait_exponential(...))    *)

StopAfterAttempt == 3

\* the value None
None == "None"

\* what a language-model call can do: answer with usable arguments, raise,
\* or answer with arguments json.loads cannot read
LlmOutcomes == {"ok", "raises", "bad_json"}

\* "except Exception as e: ... return None": the call of the function ends
\* with a return, nothing is raised to the retry loop
Caught == [raised |-> FALSE, value |-> None]

\* the function's body: the ValueError for a missing client and whatever the
\* language-model call or the parsing raises are raised inside the try
Body(client, outcome) ==
    IF ~client THEN Caught
    ELSE IF outcome # "ok" THEN Caught
    ELSE [raised |-> FALSE, value |-> "details"]

\* no call has been made
NoAttempt == [raised |-> FALSE, value |-> None]

\* the retry loop after a call: it goes round again only if the call raised
\* and fewer than stop_after_attempt calls were made
AfterCall(a, n) ==
    IF ~a.raised THEN "returned"
    ELSE IF n >= StopAfterAttempt THEN "retry_error"
    ELSE "attempt"

---------------------------------------------------------------------------
(* Inputs of the event processor's commands *)

Commands == {"create", "edit"}

OutcomeLists == [1..MaxCalls -> LlmOutcomes]

---------------------------------------------------------------------------
(* get_available_calendars and its cache *)

CacheSeconds == 3600

\* seconds the clock advances in one step
ClockStep == 30 * 60

\* self._calendars_cache = None
NoCalendars == [is_none |-> TRUE, items |-> <<>>]

\* a list of calendars held in the cache
Cached(items) == [is_none |-> FALSE, items |-> items]

\* truth value of the cache in a condition: None and the empty list are
\* false
Truthy(c) == ~c.is_none /\ c.items # <<>>

\* "not force_refresh and self._calendars_cache and
\*  current_time < self._calendars_cache_expiry"
UseCache(force_refresh, cache, expiry, current_time) ==
    ~force_refresh /\ Truthy(cache) /\ current_time < expiry

\* nothing was fetched and no call was made yet
NoFetch == [made |-> FALSE, time |-> 0, items |-> <<>>]
NoCall ==
    [made |-> FALSE, force_refresh |-> FALSE, time |-> 0, api |-> FALSE,
     raised |-> FALSE, items |-> <<>>, before |-> NoFetch]

\* the record of a call
Call(force, api, raised, items) ==
    [made |-> TRUE, force_refresh |-> force, time |-> clock, api |-> api,
     raised |-> raised, items |-> items, before |-> fetched]

---------------------------------------------------------------------------
(* Inputs of get_available_calendars *)

\* what calendarList().list() can answer
CalendarLists == {<<>>, <<"primary">>, <<"primary", "work">>}

---------------------------------------------------------------------------
(* add_attendees_to_event *)

\* the loop over the requested attendees: current_emails is the set built
\* before the loop, current_attendees the list that grows
RECURSIVE AppendNew(_, _, _)
AppendNew(current_attendees, current_emails, todo) ==
    IF todo = <<>> THEN current_attendees
    ELSE AppendNew(
             IF HasAt(Head(todo)) /\ Head(todo) \notin current_emails
             THEN Append(current_attendees, Head(todo))
             ELSE current_attendees,
             current_emails, Tail(todo))

\* event['attendees'] as sent to the update
AttendeesToStore(current_attendees, todo) ==
    AppendNew(current_attendees, Range(current_attendees), todo)

---------------------------------------------------------------------------
(* The attendee steps and the error handler of process_edit_command *)

\* "key in edit_details and edit_details[key]": the key is there and its
\* list is not empty
Wanted(request, key) == Has(request, key) /\ request[key] # <<>>

\* remove_attendees_from_event: the attendees whose email is not in the list
WithoutAttendees(current_attendees, emails) ==
    SelectSeq(current_attendees, LAMBDA a : a \notin Range(emails))

\* "return f'An error occurred while processing your request: ...'"
ErrorMessage == "An error occurred while processing your request"

---------------------------------------------------------------------------
(* Inputs of add_attendees_to_event *)

Addresses == {"ann@x.org", "bob@x.org", "nobody"}

\* no email occurs twice in the list
NoRepeat(s) == \A i, j \in 1..Len(s) : s[i] = s[j] => i = j

\* attendee lists of stored events: valid addresses, none repeated
StoredLists ==
    {s \in UNION {[1..n -> {a \in Addresses : HasAt(a)}] : n \in 0..2} :
        NoRepeat(s)}

RequestedLists == UNION {[1..n -> Addresses] : n \in 0..MaxRequested}

---------------------------------------------------------------------------
(* analyze_free_time of the event processor *)

\* "if start and end": the event has a dateTime at both ends (an all-day
\* event has a date only)
IsTimed(ev) == ev.timed

\* the busy periods of the events, in the order of the list
RECURSIVE EventPeriods(_)
EventPeriods(evs) ==
    IF evs = <<>> THEN <<>>
    ELSE (IF IsTimed(Head(evs))
          THEN <<<<Head(evs).start, Head(evs).end>>>>
          ELSE <<>>) \o EventPeriods(Tail(evs))

\* a free period; duration_minutes is its length in minutes
FreePeriod(from, to) ==
    [start |-> from, end |-> to, duration_minutes |-> to - from]

\* one pass of "for start_busy, end_busy in busy_periods"
FreeStep(acc, p, min) ==
    [periods |->
        IF acc.current_time < p[1] /\ p[1] - acc.current_time >= min
        THEN Append(acc.periods, FreePeriod(acc.current_time, p[1]))
        ELSE acc.periods,
     current_time |-> Max(acc.current_time, p[2])]

RECURSIVE FreeWalk(_, _, _)
FreeWalk(acc, busy, min) ==
    IF busy = <<>> THEN acc
    ELSE FreeWalk(FreeStep(acc, Head(busy), min), Tail(busy), min)

\* "Add final free period if needed"
FinalPeriod(acc, to, min) ==
    IF acc.current_time < to /\ to - acc.current_time >= min
    THEN Append(acc.periods, FreePeriod(acc.current_time, to))
    ELSE acc.periods

analyze_free_time(evs, from, to, min, current) ==
    FinalPeriod(FreeWalk([periods |-> <<>>,
                          current_time |-> Max(from, current)],
                         ListSort(EventPeriods(evs)), min),
                to, min)

---------------------------------------------------------------------------
(* Inputs of analyze_free_time *)

AnalyzeInstants == 0..MaxAnalyzeTime

\* events with dateTime values (end not before start) and all-day events
AnalyzedEvents ==
    {ev \in [start : AnalyzeInstants, end : AnalyzeInstants,
             timed : BOOLEAN] :
        IF ev.timed THEN ev.start <= ev.end ELSE ev.start = ev.end}

EventLists == UNION {[1..n -> AnalyzedEvents] : n \in 0..MaxEvents}

\* ranges that begin at the first or second instant and end before the
\* last one, so that events lie before, inside and after the range
AnalyzeRanges ==
    {r \in AnalyzeInstants \X AnalyzeInstants :
        r[1] <= 1 /\ r[1] < r[2] /\ r[2] < MaxAnalyzeTime}

---------------------------------------------------------------------------
(* The variables of an operation that is not running *)

CalendarIdle ==
    /\ busy_periods = <<>>
    /\ day_start = 0
    /\ day_end = 0
    /\ duration_minutes = 0
    /\ free_slots = <<>>
    /\ attendees = <<>>
    /\ start_date = 0
    /\ end_date = 0
    /\ working_hours = <<9, 17>>
    /\ now = 0
    /\ ticks = 0
    /\ free_busy_info = NoInfo
    /\ current_date = 0
    /\ suggestions = <<>>
    /\ result = <<>>
    /\ visited = <<>>

EditIdle ==
    /\ event = NoEvent
    /\ edit_details = <<>>
    /\ updates = <<>>
    /\ updated_event = NoEvent
    /\ message = "none"

RetryIdle ==
    /\ command = "none"
    /\ openai_client = FALSE
    /\ llm_outcomes = <<>>
    /\ attempt_number = 0
    /\ attempt = NoAttempt
    /\ event_details = None

CacheIdle ==
    /\ calendars_cache = NoCalendars
    /\ calendars_cache_expiry = 0
    /\ clock = 0
    /\ fetched = NoFetch
    /\ last_call = NoCall

AttendeeIdle ==
    /\ stored_attendees = <<>>
    /\ attendees_before = <<>>
    /\ requested = <<>>

AnalyzeIdle ==
    /\ events = <<>>
    /\ range_start = 0
    /\ range_end = 0
    /\ min_duration = 0
    /\ time_now = 0
    /\ free_periods = <<>>

OutsideCalendarIdle ==
    EditIdle /\ RetryIdle /\ CacheIdle /\ AttendeeIdle /\ AnalyzeIdle

OutsideEditIdle ==
    CalendarIdle /\ RetryIdle /\ CacheIdle /\ AttendeeIdle /\ AnalyzeIdle

OutsideRetryIdle ==
    CalendarIdle /\ EditIdle /\ CacheIdle /\ AttendeeIdle /\ AnalyzeIdle

OutsideCacheIdle ==
    CalendarIdle /\ EditIdle /\ RetryIdle /\ AttendeeIdle /\ AnalyzeIdle

OutsideAttendeeIdle ==
    CalendarIdle /\ EditIdle /\ RetryIdle /\ CacheIdle /\ AnalyzeIdle

OutsideAnalyzeIdle ==
    CalendarIdle /\ EditIdle /\ RetryIdle /\ CacheIdle /\ AttendeeIdle

---------------------------------------------------------------------------
(* Specification *)

InitFinder ==
    /\ pc = "find"
    /\ \E inp \in FinderInputs :
          /\ busy_periods = inp.busy
          /\ day_start = inp.dstart
          /\ day_end = inp.dend
          /\ duration_minutes = inp.duration
    /\ free_slots = <<>>
    /\ attendees = <<>>
    /\ start_date = 0
    /\ end_date = 0
    /\ working_hours = <<9, 17>>
    /\ now = 0

InitSuggest ==
    /\ pc = "suggest"
    /\ busy_periods = <<>>
    /\ day_start = 0
    /\ day_end = 0
    /\ duration_minutes \in MeetingDurations
    /\ free_slots = <<>>
    /\ attendees \in AttendeeLists
    /\ start_date \in StartDates
    /\ end_date \in EndDates(start_date)
    /\ working_hours \in WorkingHours
    /\ now \in NowChoices

Init ==
    /\ InitFinder \/ InitSuggest
    /\ ticks = 0
    /\ free_busy_info = NoInfo
    /\ current_date = 0
    /\ suggestions = <<>>
    /\ result = <<>>
    /\ visited = <<>>
    /\ OutsideCalendarIdle

\* a call of _find_free_slots
FindFreeSlots ==
    /\ pc = "find"
    /\ free_slots' = _find_free_slots(busy_periods, day_start, day_end,
                                      duration_minutes)
    /\ busy_periods' = BusyPeriodsAfterCall(busy_periods, day_start, day_end)
    /\ pc' = "found"
    /\ UNCHANGED <<day_start, day_end, duration_minutes>>
    /\ UNCHANGED suggest_vars
    /\ UNCHANGED outside_calendar

\* "if not attendees: return []"
SuggestNoAttendees ==
    /\ pc = "suggest"
    /\ attendees = <<>>
    /\ result' = <<>>
    /\ pc' = "done"
    /\ UNCHANGED <<finder_vars, attendees, start_date, end_date,
                   working_hours, now, ticks, free_busy_info, current_date,
                   suggestions, visited>>
    /\ UNCHANGED outside_calendar

\* get_free_busy_times finds no address with an '@'; the status is not
\* 'success' and [] is returned
FreeBusyNoValid ==
    /\ pc = "suggest"
    /\ attendees # <<>>
    /\ ValidAttendees(attendees) = <<>>
    /\ free_busy_info' = [status |-> "error"]
    /\ result' = <<>>
    /\ pc' = "done"
    /\ UNCHANGED <<finder_vars, attendees, start_date, end_date,
                   working_hours, now, ticks, current_date, suggestions,
                   visited>>
    /\ UNCHANGED outside_calendar

\* variant: a failed query counts as "nobody is busy" and the days are
\* scanned
FreeBusyFailsAsFree ==
    /\ pc = "suggest"
    /\ ValidAttendees(attendees) # <<>>
    /\ free_busy_info' = [status |-> "error"]
    /\ busy_periods' = <<>>
    /\ suggestions' = <<>>
    /\ current_date' = start_date
    /\ pc' = "loop"
    /\ UNCHANGED <<day_start, day_end, duration_minutes, free_slots,
                   attendees, start_date, end_date, working_hours, now,
                   ticks, result, visited>>
    /\ UNCHANGED outside_calendar

\* the free/busy query raises; get_free_busy_times returns status 'error'
\* and [] is returned
FreeBusyFails ==
    /\ pc = "suggest"
    /\ ValidAttendees(attendees) # <<>>
    /\ free_busy_info' = [status |-> "error"]
    /\ result' = <<>>
    /\ pc' = "done"
    /\ UNCHANGED <<finder_vars, attendees, start_date, end_date,
                   working_hours, now, ticks, current_date, suggestions,
                   visited>>
    /\ UNCHANGED outside_calendar

\* the free/busy query answers; the busy lists are flattened and sorted and
\* the day loop starts at start_date
FreeBusySucceeds ==
    /\ pc = "suggest"
    /\ ValidAttendees(attendees) # <<>>
    /\ \E busy_of \in [Range(ValidAttendees(attendees)) -> BusyChoices] :
          /\ free_busy_info' = [status |-> "success", attendees |-> busy_of]
          /\ busy_periods' =
                ListSort(FlattenBusy(ValidAttendees(attendees), busy_of))
    /\ suggestions' = <<>>
    /\ current_date' = start_date
    /\ pc' = "loop"
    /\ UNCHANGED <<day_start, day_end, duration_minutes, free_slots,
                   attendees, start_date, end_date, working_hours, now,
                   ticks, result, visited>>
    /\ UNCHANGED outside_calendar

\* variant: the end date itself is left out
LoopConditionExclusive == DateOf(current_date) < DateOf(end_date)

\* "while current_date.date() <= end_date.date()"
LoopCondition == DateOf(current_date) <= DateOf(end_date)

InLoop == pc = "loop" /\ LoopCondition

\* what every pass does with the clock, and its history entry: the date
\* scanned, what became of it, the date and the hour the clock showed when
\* they were read (the hour is read only on today's date, the third
\* reading is made only for the bump; -1 stands for "not read"), the
\* window and the finder's slots
Pass(r, kind, slots) ==
    /\ now' = r[3]
    /\ ticks' = ticks + (r[3] - now)
    /\ visited' = Append(visited,
          [date |-> DateOf(current_date),
           kind |-> kind,
           today |-> DateOf(r[1]),
           hour |-> IF DateOf(current_date) = DateOf(r[1])
                    THEN HourOf(r[2]) ELSE -1,
           read3 |-> IF PastStartToday(current_date, working_hours,
                                       r[1], r[2])
                     THEN r[3] ELSE -1,
           bumped |-> PastStartToday(current_date, working_hours, r[1], r[2]),
           dstart |-> DayStartOf(current_date, working_hours,
                                 r[1], r[2], r[3]),
           dend |-> DayEndOf(current_date, working_hours),
           slots |-> slots])
    /\ current_date' = NextDay(current_date)

\* "if day_start >= day_end: ... continue"
SkipPastHours ==
    /\ InLoop
    /\ \E r \in ClockReadings :
          /\ DayStartOf(current_date, working_hours, r[1], r[2], r[3])
                >= DayEndOf(current_date, working_hours)
          /\ Pass(r, "past", <<>>)
    /\ UNCHANGED <<pc, finder_vars, attendees, start_date, end_date,
                   working_hours, free_busy_info, suggestions, result>>
    /\ UNCHANGED outside_calendar

\* "if current_date.weekday() >= 5: ... continue"
SkipWeekend ==
    /\ InLoop
    /\ \E r \in ClockReadings :
          /\ DayStartOf(current_date, working_hours, r[1], r[2], r[3])
                < DayEndOf(current_date, working_hours)
          /\ IsWeekend(current_date)
          /\ Pass(r, "weekend", <<>>)
    /\ UNCHANGED <<pc, finder_vars, attendees, start_date, end_date,
                   working_hours, free_busy_info, suggestions, result>>
    /\ UNCHANGED outside_calendar

\* the finder is called for the day and its slots are appended
ScanDay ==
    /\ InLoop
    /\ \E r \in ClockReadings :
          LET ds == DayStartOf(current_date, working_hours, r[1], r[2], r[3])
              de == DayEndOf(current_date, working_hours)
              slots == _find_free_slots(busy_periods, ds, de,
                                        duration_minutes)
          IN  /\ ds < de
              /\ ~IsWeekend(current_date)
              /\ day_start' = ds
              /\ day_end' = de
              /\ free_slots' = slots
              /\ busy_periods' = BusyPeriodsAfterCall(busy_periods, ds, de)
              /\ suggestions' = Extend(suggestions, slots)
              /\ Pass(r, "scan", slots)
    /\ UNCHANGED <<pc, duration_minutes, attendees, start_date, end_date,
                   working_hours, free_busy_info, result>>
    /\ UNCHANGED outside_calendar

\* "return suggestions[:5]"
Return ==
    /\ pc = "loop"
    /\ ~LoopCondition
    /\ result' = TopSuggestions(suggestions)
    /\ pc' = "done"
    /\ UNCHANGED <<finder_vars, attendees, start_date, end_date,
                   working_hours, now, ticks, free_busy_info, current_date,
                   suggestions, visited>>
    /\ UNCHANGED outside_calendar

Next ==
    \/ FindFreeSlots
    \/ SuggestNoAttendees
    \/ FreeBusyNoValid
    \/ FreeBusyFails
    \/ FreeBusySucceeds
    \/ SkipPastHours
    \/ SkipWeekend
    \/ ScanDay
    \/ Return

Spec == Init /\ [][Next]_vars

---------------------------------------------------------------------------
(* Specification of a 'reschedule' edit *)

EditInit ==
    /\ pc = "edit"
    /\ event \in Events
    /\ edit_details \in EditRequests
    /\ updates = <<>>
    /\ updated_event = event
    /\ message = "none"
    /\ OutsideEditIdle

\* "if 'new_date' in edit_details or 'new_time' in edit_details": start and
\* end go into updates
RescheduleTimes ==
    /\ pc = "edit"
    /\ Has(edit_details, "new_date") \/ Has(edit_details, "new_time")
    /\ updates' = TimeUpdates(event, edit_details)
    /\ pc' = "update"
    /\ UNCHANGED <<event, edit_details, updated_event, message>>
    /\ UNCHANGED outside_edit

\* neither a new date nor a new time: updates holds no start and no end
RescheduleNoTimes ==
    /\ pc = "edit"
    /\ ~(Has(edit_details, "new_date") \/ Has(edit_details, "new_time"))
    /\ updates' = <<>>
    /\ pc' = "update"
    /\ UNCHANGED <<event, edit_details, updated_event, message>>
    /\ UNCHANGED outside_edit

\* "self.update_event(event_id, updates)"
UpdateEvent ==
    /\ pc = "update"
    /\ updated_event' = ApplyUpdates(event, updates)
    /\ pc' = "edited"
    /\ UNCHANGED <<event, edit_details, updates, message>>
    /\ UNCHANGED outside_edit

\* update_event raises CalendarError: the handler of lines 508-510 returns
\* the error message
UpdateEventFails ==
    /\ pc = "update"
    /\ message' = ErrorMessage
    /\ pc' = "edit_error"
    /\ UNCHANGED <<event, edit_details, updates, updated_event>>
    /\ UNCHANGED outside_edit

\* "if 'add_attendees' in edit_details and edit_details['add_attendees']:
\*  self.add_attendees_to_event(...)"
AddAttendeesStep ==
    /\ pc = "edited"
    /\ updated_event' =
          IF Wanted(edit_details, "add_attendees")
          THEN [updated_event EXCEPT !.attendees =
                   AttendeesToStore(@, edit_details["add_attendees"])]
          ELSE updated_event
    /\ pc' = "added"
    /\ UNCHANGED <<event, edit_details, updates, message>>
    /\ UNCHANGED outside_edit

\* add_attendees_to_event raises CalendarError
AddAttendeesStepFails ==
    /\ pc = "edited"
    /\ Wanted(edit_details, "add_attendees")
    /\ message' = ErrorMessage
    /\ pc' = "edit_error"
    /\ UNCHANGED <<event, edit_details, updates, updated_event>>
    /\ UNCHANGED outside_edit

\* "if 'remove_attendees' in edit_details and
\*  edit_details['remove_attendees']: self.remove_attendees_from_event(...)"
\* and "return f'Successfully updated event: ...'"
RemoveAttendeesStep ==
    /\ pc = "added"
    /\ updated_event' =
          IF Wanted(edit_details, "remove_attendees")
          THEN [updated_event EXCEPT !.attendees =
                   WithoutAttendees(@, edit_details["remove_attendees"])]
          ELSE updated_event
    /\ message' = "Successfully updated event"
    /\ pc' = "edit_done"
    /\ UNCHANGED <<event, edit_details, updates>>
    /\ UNCHANGED outside_edit

\* remove_attendees_from_event raises CalendarError
RemoveAttendeesStepFails ==
    /\ pc = "added"
    /\ Wanted(edit_details, "remove_attendees")
    /\ message' = ErrorMessage
    /\ pc' = "edit_error"
    /\ UNCHANGED <<event, edit_details, updates, updated_event>>
    /\ UNCHANGED outside_edit

EditNext ==
    \/ RescheduleTimes
    \/ RescheduleNoTimes
    \/ UpdateEvent
    \/ UpdateEventFails
    \/ AddAttendeesStep
    \/ AddAttendeesStepFails
    \/ RemoveAttendeesStep
    \/ RemoveAttendeesStepFails

EditSpec == EditInit /\ [][EditNext]_vars

---------------------------------------------------------------------------
(* Specification of a command of the event processor *)

RetryInit ==
    /\ pc = "attempt"
    /\ command \in Commands
    /\ openai_client \in BOOLEAN
    /\ llm_outcomes \in OutcomeLists
    /\ attempt_number = 0
    /\ attempt = NoAttempt
    /\ event_details = None
    /\ OutsideRetryIdle

\* the retry loop calls the decorated function
CallFunction ==
    /\ pc = "attempt"
    /\ attempt_number < MaxCalls
    /\ attempt_number' = attempt_number + 1
    /\ attempt' = Body(openai_client, llm_outcomes[attempt_number + 1])
    /\ pc' = "called"
    /\ UNCHANGED <<command, openai_client, llm_outcomes, event_details>>
    /\ UNCHANGED outside_retry

\* the retry loop looks at how the call ended
EndOfCall ==
    /\ pc = "called"
    /\ pc' = AfterCall(attempt, attempt_number)
    /\ event_details' = IF attempt.raised THEN event_details
                        ELSE attempt.value
    /\ UNCHANGED <<command, openai_client, llm_outcomes, attempt_number,
                   attempt>>
    /\ UNCHANGED outside_retry

RetryNext ==
    \/ CallFunction
    \/ EndOfCall

RetrySpec == RetryInit /\ [][RetryNext]_vars

---------------------------------------------------------------------------
(* Specification of get_available_calendars *)

CacheInit ==
    /\ pc = "calendars"
    /\ calendars_cache = NoCalendars
    /\ calendars_cache_expiry = 0
    /\ clock = 0
    /\ fetched = NoFetch
    /\ last_call = NoCall
    /\ OutsideCacheIdle

\* the cached list is returned
GetCalendarsCached ==
    /\ pc = "calendars"
    /\ \E force_refresh \in BOOLEAN :
          /\ UseCache(force_refresh, calendars_cache, calendars_cache_expiry,
                      clock)
          /\ last_call' = Call(force_refresh, FALSE, FALSE,
                               calendars_cache.items)
    /\ UNCHANGED <<pc, calendars_cache, calendars_cache_expiry, clock,
                   fetched>>
    /\ UNCHANGED outside_cache

\* the list is fetched from the API and put into the cache
GetCalendarsFetched ==
    /\ pc = "calendars"
    /\ \E force_refresh \in BOOLEAN, calendars \in CalendarLists :
          /\ ~UseCache(force_refresh, calendars_cache,
                       calendars_cache_expiry, clock)
          /\ calendars_cache' = Cached(calendars)
          /\ calendars_cache_expiry' = clock + CacheSeconds
          /\ fetched' = [made |-> TRUE, time |-> clock, items |-> calendars]
          /\ last_call' = Call(force_refresh, TRUE, FALSE, calendars)
    /\ UNCHANGED <<pc, clock>>
    /\ UNCHANGED outside_cache

\* the API raises: CalendarError goes to the caller, the cache stays
GetCalendarsFails ==
    /\ pc = "calendars"
    /\ \E force_refresh \in BOOLEAN :
          /\ ~UseCache(force_refresh, calendars_cache,
                       calendars_cache_expiry, clock)
          /\ last_call' = Call(force_refresh, TRUE, TRUE, <<>>)
    /\ UNCHANGED <<pc, calendars_cache, calendars_cache_expiry, clock,
                   fetched>>
    /\ UNCHANGED outside_cache

\* time passes between calls
TimePasses ==
    /\ pc = "calendars"
    /\ clock < MaxClockSteps * ClockStep
    /\ clock' = clock + ClockStep
    /\ UNCHANGED <<pc, calendars_cache, calendars_cache_expiry, fetched,
                   last_call>>
    /\ UNCHANGED outside_cache

CacheNext ==
    \/ GetCalendarsCached
    \/ GetCalendarsFetched
    \/ GetCalendarsFails
    \/ TimePasses

CacheSpec == CacheInit /\ [][CacheNext]_vars

---------------------------------------------------------------------------
(* Specification of add_attendees_to_event *)

AttendeeInit ==
    /\ pc = "add"
    /\ stored_attendees \in StoredLists
    /\ attendees_before = stored_attendees
    /\ requested \in RequestedLists
    /\ OutsideAttendeeIdle

\* the event is read, the new attendees are appended, the event is updated
AddAttendees ==
    /\ pc = "add"
    /\ stored_attendees' = AttendeesToStore(stored_attendees, requested)
    /\ pc' = "added"
    /\ UNCHANGED <<attendees_before, requested>>
    /\ UNCHANGED outside_attendee

\* the get or the update raises: CalendarError, the event stays as it was
AddAttendeesFails ==
    /\ pc = "add"
    /\ pc' = "add_failed"
    /\ UNCHANGED <<stored_attendees, attendees_before, requested>>
    /\ UNCHANGED outside_attendee

AttendeeNext ==
    \/ AddAttendees
    \/ AddAttendeesFails

AttendeeSpec == AttendeeInit /\ [][AttendeeNext]_vars

---------------------------------------------------------------------------
(* Specification of analyze_free_time *)

AnalyzeInit ==
    /\ pc = "analyze"
    /\ events \in EventLists
    /\ \E r \in AnalyzeRanges : range_start = r[1] /\ range_end = r[2]
    /\ min_duration \in 1..2
    /\ time_now \in {0, 2}
    /\ free_periods = <<>>
    /\ OutsideAnalyzeIdle

\* a call of analyze_free_time
AnalyzeFreeTime ==
    /\ pc = "analyze"
    /\ free_periods' = analyze_free_time(events, range_start, range_end,
                                         min_duration, time_now)
    /\ pc' = "analyzed"
    /\ UNCHANGED <<events, range_start, range_end, min_duration, time_now>>
    /\ UNCHANGED outside_analyze

AnalyzeNext ==
    \/ AnalyzeFreeTime

AnalyzeSpec == AnalyzeInit /\ [][AnalyzeNext]_vars

---------------------------------------------------------------------------
(* Vocabulary of the properties, defined on instants and independent of   *)
(* the walk                                                                *)

\* half-open intervals [a1, a2) and [b1, b2) share an instant
Overlap(a1, a2, b1, b2) == a1 < b2 /\ b1 < a2

\* the busy periods of a list that meet the window, cut to the window
ClippedBusy(busy, dstart, dend) ==
    {<<Max(p[1], dstart), Min(p[2], dend)>> :
        p \in {q \in Range(busy) : q[1] < dend /\ q[2] > dstart}}

Found == pc = "found"

\* the busy periods of a list that last some time
Proper(busy) == {p \in Range(busy) : p[1] < p[2]}

\* the instants where busy or free time can begin or end
Boundaries(busy, dstart, dend) ==
    {dstart, dend} \cup
    {x \in UNION {{p[1], p[2]} : p \in Range(busy)} : dstart < x /\ x < dend}

\* some busy period of P covers the time just after / just before x
BusyAfter(P, x) == \E p \in P : p[1] <= x /\ x < p[2]
BusyBefore(P, x) == \E p \in P : p[1] < x /\ x <= p[2]

\* the maximal busy-free gaps [a, b) of the window
MaximalGaps(busy, dstart, dend) ==
    LET P == Proper(busy)
        B == Boundaries(busy, dstart, dend)
    IN  {g \in B \X B :
            /\ g[1] < g[2]
            /\ \A p \in P : ~Overlap(g[1], g[2], p[1], p[2])
            /\ (g[1] = dstart \/ BusyBefore(P, g[1]))
            /\ (g[2] = dend \/ BusyAfter(P, g[2]))}

\* the union of the busy periods as its connected pieces [a, b)
MergedSet(busy) ==
    LET P == Proper(busy)
        E == UNION {{p[1], p[2]} : p \in P}
    IN  {m \in E \X E :
            /\ m[1] < m[2]
            /\ ~BusyBefore(P, m[1])
            /\ ~BusyAfter(P, m[2])
            /\ \A x \in E : (m[1] <= x /\ x < m[2]) => BusyAfter(P, x)}

RECURSIVE AscendingList(_)
AscendingList(S) ==
    IF S = {} THEN <<>>
    ELSE LET lo == CHOOSE x \in S : \A y \in S : x = y \/ TupleLess(x, y)
         IN  <<lo>> \o AscendingList(S \ {lo})

Merged(busy) == AscendingList(MergedSet(busy))

---------------------------------------------------------------------------
(* Properties of _find_free_slots *)

\* C1: every candidate returned by _find_free_slots lies inside
\* [day_start, day_end] and overlaps no busy interval clipped to the window.
C1_InsideWindowAndFree ==
    Found =>
        \A i \in 1..Len(free_slots) :
            /\ free_slots[i].start >= day_start
            /\ free_slots[i].end <= day_end
            /\ \A p \in ClippedBusy(busy_periods, day_start, day_end) :
                  ~Overlap(free_slots[i].start, free_slots[i].end, p[1], p[2])

\* a candidate is returned although a busy period reaches over a window edge
C1_Witness ==
    /\ Found
    /\ Len(free_slots) >= 1
    /\ \E p \in Range(busy_periods) :
          /\ p[1] < day_start /\ p[2] > day_start /\ p[2] < day_end
    /\ \E p \in Range(busy_periods) :
          /\ p[2] > day_end /\ p[1] < day_end /\ p[1] > day_start

\* C2: every candidate returned by _find_free_slots has
\* end - start = min_duration_minutes exactly, also in a longer gap.
C2_ExactDuration ==
    Found =>
        \A i \in 1..Len(free_slots) :
            free_slots[i].end - free_slots[i].start = duration_minutes

\* a candidate is returned for a gap longer than the duration, before a
\* busy period
C2_Witness ==
    /\ Found
    /\ Len(free_slots) >= 1
    /\ \E g \in MaximalGaps(busy_periods, day_start, day_end) :
          /\ g[1] = free_slots[1].start
          /\ g[2] - g[1] > duration_minutes
          /\ g[2] < day_end

\* C3: for busy lists of intervals with start < end, _find_free_slots
\* returns exactly one candidate per maximal busy-free gap of the window
\* that is at least min_duration_minutes long, at the gap's start, and no
\* other candidate.
C3_OnePerGap ==
    (Found /\ Proper(busy_periods) = Range(busy_periods)) =>
        LET fits == {g \in MaximalGaps(busy_periods, day_start, day_end) :
                        g[2] - g[1] >= duration_minutes}
        IN  /\ {free_slots[i].start : i \in 1..Len(free_slots)}
                  = {g[1] : g \in fits}
            /\ Len(free_slots) = Cardinality(fits)

\* a gap of exactly the duration, the trailing gap and a gap that is too
\* short occur together
C3_Witness ==
    /\ Found
    /\ Proper(busy_periods) = Range(busy_periods)
    /\ LET G == MaximalGaps(busy_periods, day_start, day_end)
       IN  /\ \E g \in G : g[2] - g[1] = duration_minutes /\ g[2] < day_end
           /\ \E g \in G : g[2] = day_end /\ g[2] - g[1] >= duration_minutes
           /\ \E g \in G : g[2] - g[1] < duration_minutes
    /\ Len(free_slots) = 2

\* C4: for busy lists of intervals with start < end, _find_free_slots
\* returns the same candidates for the list as for the list with its
\* overlapping and touching intervals merged into their union.
C4_MergeInvariant ==
    (Found /\ Proper(busy_periods) = Range(busy_periods)) =>
        free_slots = _find_free_slots(Merged(busy_periods), day_start,
                                      day_end, duration_minutes)

\* the list holds a nested or overlapping pair and candidates are returned
C4_Witness ==
    /\ Found
    /\ Proper(busy_periods) = Range(busy_periods)
    /\ Len(free_slots) >= 1
    /\ \E i, j \in 1..Len(busy_periods) :
          /\ i < j
          /\ busy_periods[j][1] < busy_periods[i][1]
          /\ busy_periods[i][2] < busy_periods[j][2]
    /\ Len(Merged(busy_periods)) < Len(busy_periods)

\* the scenario of C5 is the input of the call
C5_Scenario ==
    /\ day_start = 540
    /\ day_end = 1020
    /\ busy_periods = <<<<600, 630>>, <<780, 900>>>>
    /\ duration_minutes = 30

\* C5: window 09:00-17:00, busy [(10:00,10:30), (13:00,15:00)], duration 30
\* gives exactly 09:00-09:30, 10:30-11:00, 15:00-15:30 in that order.
C5_ScenarioResult ==
    (Found /\ C5_Scenario) =>
        free_slots = <<Suggestion(540, 30), Suggestion(630, 30),
                       Suggestion(900, 30)>>

C5_Witness == Found /\ C5_Scenario /\ Len(free_slots) = 3

\* C6: with an empty busy list and a window at least min_duration_minutes
\* long, exactly one candidate is returned and it starts at day_start.
C6_EmptyBusy ==
    (Found /\ busy_periods = <<>>
           /\ day_end - day_start >= duration_minutes) =>
        /\ Len(free_slots) = 1
        /\ free_slots[1].start = day_start

\* the window is exactly as long as the duration
C6_Witness ==
    /\ Found
    /\ busy_periods = <<>>
    /\ day_end - day_start = duration_minutes
    /\ Len(free_slots) = 1

\* C7: when some busy interval has start <= day_start and end >= day_end,
\* no candidate is returned, whatever else the list holds.
C7_CoveredWindow ==
    (Found /\ \E p \in Range(busy_periods) :
                  p[1] <= day_start /\ p[2] >= day_end) =>
        free_slots = <<>>

\* the covering interval comes with a shorter one inside the window
C7_Witness ==
    /\ Found
    /\ \E p \in Range(busy_periods) : p[1] < day_start /\ p[2] > day_end
    /\ \E p \in Range(busy_periods) :
          p[1] > day_start /\ p[2] < day_end /\ p[1] < p[2]
    /\ free_slots = <<>>

---------------------------------------------------------------------------
(* Properties of suggest_optimal_meeting_time *)

\* the call went through the day loop and returned
Returned == pc = "done" /\ free_busy_info.status = "success"

\* start times strictly increase and no slot reaches into a later one
Chronological(slots) ==
    \A i, j \in 1..Len(slots) :
        i < j => /\ slots[i].start < slots[j].start
                 /\ slots[i].end <= slots[j].start

\* C8: candidates are in chronological order, in the list returned by
\* _find_free_slots and in the list aggregated over the days by
\* suggest_optimal_meeting_time: start times strictly increase and no two
\* candidates overlap.
C8_ChronologicalOrder ==
    /\ Chronological(free_slots)
    /\ Chronological(suggestions)
    /\ Chronological(result)

\* the returned list holds two slots of one day and a slot of a later day
C8_Witness ==
    /\ Returned
    /\ \E i, j, k \in 1..Len(result) :
          /\ i < j /\ j < k
          /\ DateOf(result[i].start) = DateOf(result[j].start)
          /\ DateOf(result[j].start) < DateOf(result[k].start)

\* the dates of the range
RangeDates == DateOf(start_date)..DateOf(end_date)

\* C9: suggest_optimal_meeting_time returns no candidate on a Saturday or
\* Sunday; the weekend dates of the range are passed over without a finder
\* call, and the weekdays of the range, before and after them, are handed
\* to the finder (unless the day is today and its working hours are over).
C9_WeekendsSkipped ==
    /\ \A i \in 1..Len(suggestions) : Weekday(suggestions[i].start) < 5
    /\ \A i \in 1..Len(result) : Weekday(result[i].start) < 5
    /\ \A i \in 1..Len(visited) :
          visited[i].date % 7 >= 5 => visited[i].kind # "scan"
    /\ Returned =>
          \A d \in RangeDates :
              d % 7 < 5 =>
                  \E i \in 1..Len(visited) :
                      /\ visited[i].date = d
                      /\ visited[i].kind # "weekend"
                      /\ ~visited[i].bumped => visited[i].kind = "scan"

\* the range spans a weekend and slots of the Friday before and of the
\* Monday after are returned
C9_Witness ==
    /\ Returned
    /\ {4, 5, 6, 7} \subseteq RangeDates
    /\ \E i \in 1..Len(visited) : visited[i].kind = "weekend"
    /\ \E i, j \in 1..Len(result) :
          /\ DateOf(result[i].start) = 4
          /\ DateOf(result[j].start) = 7

\* the finder's results for the days the loop scanned, day after day
RECURSIVE DayByDay(_)
DayByDay(v) ==
    IF v = <<>> THEN <<>>
    ELSE (IF Head(v).kind = "scan"
          THEN _find_free_slots(busy_periods, Head(v).dstart, Head(v).dend,
                                duration_minutes)
          ELSE <<>>) \o DayByDay(Tail(v))

\* C10: suggest_optimal_meeting_time returns at most 5 candidates, the
\* first 5 of the day-by-day concatenation of the per-day finder results
\* (all of them when there are fewer), the days taken in ascending order.
C10_EarliestFive ==
    /\ Len(result) <= 5
    /\ Returned =>
          /\ \A i \in 1..Len(visited) :
                visited[i].date = DateOf(start_date) + i - 1
          /\ Len(result) = Min(5, Len(DayByDay(visited)))
          /\ \A i \in 1..Len(result) : result[i] = DayByDay(visited)[i]

\* more than 5 slots were found and the ones dropped are of a later day
\* than every slot kept
C10_Witness ==
    /\ Returned
    /\ Len(DayByDay(visited)) > 5
    /\ Len(result) = 5
    /\ DateOf(DayByDay(visited)[6].start) > DateOf(result[5].start)

\* the next whole hour after the clock reading t
NextWholeHour(t) == (t - (t % 60)) + 60

\* the pass found the scanned date to be today with the working hours begun
TodayBegun(v) == v.date = v.today /\ v.hour >= working_hours[1]

\* the instant the window start is bumped to in pass v
BumpedStart(v) ==
    Max(At(v.date, working_hours[1], 0), NextWholeHour(v.read3))

C12_InclusiveRange ==
    /\ \A i \in 1..Len(visited) :
          /\ visited[i].date = DateOf(start_date) + i - 1
          /\ visited[i].date <= DateOf(end_date)
          /\ (visited[i].kind = "scan") <=>
                (visited[i].date % 7 < 5 /\ visited[i].dstart < visited[i].dend)
    /\ Returned => Len(visited) = DateOf(end_date) - DateOf(start_date) + 1
    /\ \A k \in 1..Len(suggestions) :
          /\ DateOf(suggestions[k].start) >= DateOf(start_date)
          /\ DateOf(suggestions[k].end) <= DateOf(end_date)

\* a candidate of end_date's own day is returned, in a range of several
\* days
C12_Witness ==
    /\ Returned
    /\ DateOf(end_date) > DateOf(start_date)
    /\ \E k \in 1..Len(result) :
          DateOf(result[k].start) = DateOf(end_date)

\* the clock when the call began
CallTime == now - ticks

\* the window start of a pass over date d when every test of the pass uses
\* the one current-time value t
DayStartAt(d, t) ==
    IF d = DateOf(t) /\ HourOf(t) >= working_hours[1]
    THEN Max(At(d, working_hours[1], 0), NextWholeHour(t))
    ELSE At(d, working_hours[1], 0)

\* C14: the aggregation works from one current-time value and reads no
\* wall clock of its own: the test "is this date today", the test "current
\* hour >= start hour" and the bumped window start of every pass derive
\* from the current time the call was given, so that the result is fixed
\* by the arguments, the busy intervals and that time.
C14_OneCurrentTime ==
    \A i \in 1..Len(visited) :
        visited[i].dstart = DayStartAt(visited[i].date, CallTime)

\* C15: when the busy intervals cannot be fetched (no attendee, no valid
\* address, or a free/busy query that fails or reports no success),
\* suggest_optimal_meeting_time returns the empty list: no day is scanned
\* and the call ends with a list, not with an error.
C15_NoBusyNoSlots ==
    /\ (pc = "done" /\ free_busy_info.status # "success") =>
          result = <<>> /\ suggestions = <<>> /\ visited = <<>>
    /\ pc = "loop" =>
          /\ free_busy_info.status = "success"
          /\ ValidAttendees(attendees) # <<>>
    /\ (pc = "done" /\ ValidAttendees(attendees) = <<>>) =>
          free_busy_info.status # "success"

\* the query for a valid attendee failed and the call returned []
C15_Witness ==
    /\ pc = "done"
    /\ ValidAttendees(attendees) # <<>>
    /\ free_busy_info.status = "error"
    /\ result = <<>>

\* the passes the day loop still has to make
PassesLeft == DateOf(end_date) - DateOf(current_date) + 1

\* C16: suggest_optimal_meeting_time always terminates: every pass of the
\* day loop (weekend skip, empty-window skip, scan) moves the cursor one
\* day on, so there is at most one pass per date of the range, and every
\* step of the loop either is the return, with no pass left, or lowers the
\* number of passes left by one.
C16_Terminates ==
    /\ [](Len(visited) <= DateOf(end_date) - DateOf(start_date) + 1)
    /\ [](pc = "loop" => PassesLeft >= 0)
    /\ [][pc = "loop" =>
            \/ pc' = "done" /\ PassesLeft <= 0
            \/ /\ pc' = "loop"
               /\ PassesLeft > 0
               /\ PassesLeft' = PassesLeft - 1
               /\ Len(visited') = Len(visited) + 1]_vars

\* the call returned after a skipped weekend day, a skipped past-hours day
\* and a scanned day
C16_Witness ==
    /\ Returned
    /\ \E i \in 1..Len(visited) : visited[i].kind = "weekend"
    /\ \E i \in 1..Len(visited) : visited[i].kind = "past"
    /\ \E i \in 1..Len(visited) : visited[i].kind = "scan"

---------------------------------------------------------------------------
(* The busy list as an argument of the finder *)

\* busy periods to add to the list of a call: periods that end where the
\* window starts, start where it ends, lie a while after it, run across
\* its start, across its end and across both
Probes ==
    {<<day_start - 1, day_start>>, <<day_end, day_end + 1>>,
     <<day_end + 1, day_end + 2>>, <<day_start - 1, day_start + 1>>,
     <<day_end - 1, day_end + 1>>, <<day_start - 1, day_end + 1>>}

\* the period lies wholly before or wholly after the window
Outside(p) == p[2] <= day_start \/ p[1] >= day_end

\* the part of a period that lies within the window
Clipped(p) ==
    <<IF p[1] < day_start THEN day_start ELSE p[1],
      IF p[2] > day_end THEN day_end ELSE p[2]>>

\* the finder's output for the window and duration of the call
SlotsFor(busy) ==
    _find_free_slots(busy, day_start, day_end, duration_minutes)

\* C17: a busy period with end <= day_start or start >= day_end, one that
\* only touches a boundary of the window included, does not change the
\* finder's output, whether it is added to the list or is in it already, and
\* a period that extends past the window has the effect of its part within
\* the window.
C17_OutsideDiscarded ==
    Found =>
        /\ \A p \in Probes :
              IF Outside(p)
              THEN SlotsFor(Append(busy_periods, p)) = free_slots
              ELSE SlotsFor(Append(busy_periods, p)) =
                       SlotsFor(Append(busy_periods, Clipped(p)))
        /\ SlotsFor(SelectSeq(busy_periods, LAMBDA p : ~Outside(p)))
               = free_slots
        /\ SlotsFor([i \in 1..Len(busy_periods) |->
                        IF Outside(busy_periods[i]) THEN busy_periods[i]
                        ELSE Clipped(busy_periods[i])]) = free_slots

\* a call that found a slot although its list holds a period ending where
\* the window starts and a period that runs past the window's end
C17_Witness ==
    /\ Found
    /\ free_slots # <<>>
    /\ \E i \in 1..Len(busy_periods) :
          busy_periods[i][1] < busy_periods[i][2]
              /\ busy_periods[i][2] = day_start
    /\ \E i \in 1..Len(busy_periods) :
          /\ busy_periods[i][1] > day_start
          /\ busy_periods[i][1] < day_end
          /\ busy_periods[i][2] > day_end

\* the instants strictly inside the window of the call
InsideWindow == {t \in day_start + 1..day_end - 1 : TRUE}

\* C24: the candidates depend only on the set of busy instants: adding a
\* busy period of zero length (start = end) strictly inside the window
\* does not change the finder's output, and never makes one free gap yield
\* two candidates.
C24_ZeroLengthIgnored ==
    Found =>
        \A t \in InsideWindow :
            SlotsFor(Append(busy_periods, <<t, t>>)) = free_slots

\* the orders a list of n elements can be put in
Orders(n) ==
    {f \in [1..n -> 1..n] : \A i, j \in 1..n : f[i] = f[j] => i = j}

\* C18: the finder's output does not depend on the order of the busy list:
\* every permutation of the list of a call, lists with equal start times
\* included, gives the candidates the call returned.
C18_OrderIndependent ==
    Found =>
        \A f \in Orders(Len(busy_periods)) :
            SlotsFor([i \in 1..Len(busy_periods) |-> busy_periods[f[i]]])
                = free_slots

\* a call that found a slot for a list given out of order, two of its
\* periods starting at the same time inside the window, the longer first
C18_Witness ==
    /\ Found
    /\ free_slots # <<>>
    /\ \E i, j \in 1..Len(busy_periods) :
          /\ i < j
          /\ busy_periods[i][1] = busy_periods[j][1]
          /\ busy_periods[i][2] > busy_periods[j][2]
          /\ busy_periods[j][1] > day_start
          /\ busy_periods[j][2] < day_end

\* C19: _find_free_slots leaves its busy_periods argument as it was,
\* elements and order: no call of it, made directly or for a day of the
\* range, changes the list, so every day of a range is scanned against the
\* list that was fetched.
C19_BusyListUnchanged ==
    [][(pc = "find" \/ pc = "loop") => busy_periods' = busy_periods]_vars

\* after a call that found a slot the list is still out of order and still
\* holds a period outside the window and one that begins before the window
C19_Witness ==
    /\ Found
    /\ free_slots # <<>>
    /\ Len(busy_periods) = 2
    /\ Outside(busy_periods[1])
    /\ busy_periods[1][1] > busy_periods[2][1]
    /\ busy_periods[2][1] < day_start
    /\ busy_periods[2][2] > day_start

---------------------------------------------------------------------------
(* Rescheduling an event *)

Edited == pc = "edited"

\* the request moves the event and gives no new duration
MovedOnly ==
    /\ Has(edit_details, "new_date") \/ Has(edit_details, "new_time")
    /\ ~Has(edit_details, "new_duration")

\* C20: a 'reschedule' with a new date and/or a new time and no
\* new_duration keeps the event's duration: the updated end minus the
\* updated start is the original end minus the original start, so the
\* updated end is after the updated start.
C20_DurationKept ==
    (Edited /\ MovedOnly) =>
        /\ updated_event.end - updated_event.start = event.end - event.start
        /\ updated_event.end > updated_event.start

---------------------------------------------------------------------------
(* Retrying a command of the event processor *)

\* the language-model call of the k-th attempt failed
LlmFailed(k) == llm_outcomes[k] # "ok"

\* C21: when the language-model call of process_create_command or
\* process_edit_command fails the operation is attempted again, up to 3
\* attempts in total: None is returned only after three failed attempts,
\* and a result after fewer only if the last attempt's call succeeded.
C21_ThreeAttempts ==
    (pc = "returned" /\ openai_client) =>
        /\ \A k \in 1..attempt_number - 1 : LlmFailed(k)
        /\ IF event_details = None
           THEN attempt_number = StopAfterAttempt
                    /\ LlmFailed(StopAfterAttempt)
           ELSE ~LlmFailed(attempt_number)

---------------------------------------------------------------------------
(* The calendar list cache *)

\* the call was made less than 3600 seconds after a successful fetch and
\* did not ask for a refresh
WithinCacheTime(c) ==
    c.made /\ ~c.force_refresh /\ c.before.made
        /\ c.time < c.before.time + CacheSeconds

\* C22: after a successful fetch, whatever list it returned, every call
\* within the next 3600 seconds with force_refresh false returns the cached
\* list without calling the API; a call with force_refresh true or after
\* expiry calls the API and, when the API answers, replaces the cache and
\* its expiry.
C22_CacheForAnHour ==
    last_call.made =>
        IF WithinCacheTime(last_call)
        THEN ~last_call.api /\ last_call.items = last_call.before.items
        ELSE /\ last_call.api
             /\ ~last_call.raised =>
                   /\ calendars_cache = Cached(last_call.items)
                   /\ calendars_cache_expiry = last_call.time + CacheSeconds

---------------------------------------------------------------------------
(* Adding attendees *)

\* C23: add_attendees_to_event adds only attendees that are not in the list
\* already: a list without a repeated email has none after the call, for
\* every requested list, and every existing attendee is kept.
C23_NoRepeatedAttendee ==
    (pc = "added" /\ NoRepeat(attendees_before)) =>
        /\ NoRepeat(stored_attendees)
        /\ Len(stored_attendees) >= Len(attendees_before)
        /\ SubSeq(stored_attendees, 1, Len(attendees_before))
               = attendees_before

---------------------------------------------------------------------------
(* The candidates of suggest_optimal_meeting_time and the range asked for *)

\* C25: for every date range passed to suggest_optimal_meeting_time, no
\* returned candidate starts earlier than the current time (taken here as
\* the time at which the call was made).
C25_NotBeforeNow ==
    Returned => \A k \in 1..Len(result) : result[k].start >= CallTime

\* C26: every returned candidate lies inside the instant range
\* [start_date, end_date] for which the busy periods were fetched: none
\* starts before start_date's time of day on the first date or ends after
\* end_date's time of day on the last date.
C26_InsideFetchedRange ==
    Returned =>
        \A k \in 1..Len(result) :
            result[k].start >= start_date /\ result[k].end <= end_date

\* the busy periods the free/busy response reports for attendee a
ReportedBusy(a) == Range(free_busy_info.attendees[a])

\* C27: every returned candidate is free for all attendees at once: it
\* overlaps no busy period reported for any attendee in the free/busy
\* response, on any day of the range.
C27_FreeForAll ==
    Returned =>
        \A k \in 1..Len(result) :
            \A a \in DOMAIN free_busy_info.attendees :
                \A p \in ReportedBusy(a) :
                    ~Overlap(result[k].start, result[k].end, p[1], p[2])

\* two attendees with different busy lists, and a returned candidate that
\* starts where a busy period of one of them ends while the other is free
\* just before
C27_Witness ==
    /\ Returned
    /\ \E a, b \in DOMAIN free_busy_info.attendees :
          /\ a # b
          /\ ReportedBusy(a) # {}
          /\ \E k \in 1..Len(result) :
                \E p \in ReportedBusy(b) :
                    /\ p[2] = result[k].start
                    /\ \A q \in ReportedBusy(a) :
                          ~Overlap(p[2] - 1, p[2], q[1], q[2])

---------------------------------------------------------------------------
(* Errors while an event is edited *)

\* C28: process_edit_command is all-or-nothing: whenever it returns the
\* message 'An error occurred while processing your request', none of its
\* steps has changed the matched event.
C28_AllOrNothing ==
    message = ErrorMessage => updated_event = event

---------------------------------------------------------------------------
(* The free periods of analyze_free_time *)

\* C29: every free period returned by analyze_free_time lies inside the
\* analysed range: it starts no earlier than max(start_date, now), ends no
\* later than end_date, lasts at least min_duration minutes and overlaps no
\* busy event, for every list of events, events that begin after end_date
\* included.
C29_FreeInsideRange ==
    pc = "analyzed" =>
        \A i \in 1..Len(free_periods) :
            /\ free_periods[i].start >= range_start
            /\ free_periods[i].start >= time_now
            /\ free_periods[i].end <= range_end
            /\ free_periods[i].end - free_periods[i].start >= min_duration
            /\ \A k \in 1..Len(events) :
                  events[k].timed =>
                      ~Overlap(free_periods[i].start, free_periods[i].end,
                               events[k].start, events[k].end)

=============================================================================
